---- MODULE Spec2Model ----
(***************************************************************************)
(* Model of neuraxle/rest/flask.py: the JSON codec contract, the REST      *)
(* endpoint binder (FlaskRestApiWrapper), the remote-stage caller          *)
(* (RestAPICaller) and the HTTP client abstraction (RequestWrapper,        *)
(* UrllibRequestWrapper).                                                  *)
(*                                                                         *)
(* Python values are records tagged by kind:                               *)
(*   None, int, str, list, dict, object (an arbitrary non-JSON object),    *)
(*   ndarray (numpy array: dtype, ndim and its content in tolist() form),  *)
(*   np.int64 (a numpy scalar, what iterating a 1-d integer array yields). *)
(* A call's outcome is either Returned(value) or Raised(type, msg).        *)
(***************************************************************************)
EXTENDS Integers, Sequences, FiniteSets, TLC

VARIABLES
    ctor,         \* the constructor call that built the deployed object
    self,         \* the RestAPICaller's fields (url, method, request), or NoObject
    api,          \* the FlaskRestApiWrapper's fields (steps, route), or NoObject
    getCalls,     \* calls of get the caller's client has received
    postCalls,    \* calls of post the caller's client has received
    invocations,  \* batch-context transforms performed on the caller
    ops,          \* operations performed on the deployed object, of any kind
    last          \* the latest operation: its arguments and its outcome

vars == <<ctor, self, api, getCalls, postCalls, invocations, ops, last>>

(***************************************************************************)
(* Bounds of the model.                                                    *)
(***************************************************************************)
MaxLen == 2      \* longest list drawn for an envelope field
MaxCalls == 2    \* most operations performed on one constructed object

(***************************************************************************)
(* Python values and call outcomes.                                        *)
(***************************************************************************)
PyNone == [kind |-> "None"]
PyInt(i) == [kind |-> "int", n |-> i]
PyStr(str) == [kind |-> "str", s |-> str]
PyList(xs) == [kind |-> "list", items |-> xs]
PyDict(ks, m) == [kind |-> "dict", keys |-> ks, map |-> m]
PyObject == [kind |-> "object"]
NpInt64(i) == [kind |-> "np.int64", n |-> i]
NdArray(dt, nd, c) == [kind |-> "ndarray", dtype |-> dt, ndim |-> nd, content |-> c]

Returned(v) == [status |-> "returned", value |-> v]
Raised(ty, m) == [status |-> "raised", type |-> ty, msg |-> m]

IsNone(v) == v.kind = "None"
IsList(v) == v.kind = "list"

HasKey(d, k) == \E i \in 1..Len(d.keys) : d.keys[i] = k

(***************************************************************************)
(* numpy: np.array(v) and ndarray.tolist(), on the values of this model.   *)
(* Lists are rectangular (see Envelopes), so shape inference never fails.  *)
(***************************************************************************)
RECURSIVE Depth(_)
Depth(v) ==
    IF v.kind = "list"
    THEN IF Len(v.items) = 0 THEN 1 ELSE 1 + Depth(v.items[1])
    ELSE 0

RECURSIVE Leaves(_)
Leaves(v) ==
    IF v.kind = "list"
    THEN UNION {Leaves(v.items[i]) : i \in 1..Len(v.items)}
    ELSE {v}

\* dtype numpy infers for the scalars found in a (nested) list: the scalars
\* of this model are ints (within the int64 range), None and plain objects
InferDtype(v) ==
    LET ls == Leaves(v) IN
    IF ls = {} THEN "float64"
    ELSE IF \A x \in ls : x.kind = "int" THEN "int64"
    ELSE "object"

np_array(v) ==
    IF v.kind = "ndarray" THEN v
    ELSE IF v.kind = "np.int64" THEN NdArray("int64", 0, PyInt(v.n))
    ELSE NdArray(InferDtype(v), Depth(v), v)

tolist(a) == a.content

\* list(a) of the builtin: iterating the first axis of an array
BuiltinList(v) ==
    IF v.kind = "list" THEN Returned(v)
    ELSE IF v.kind = "ndarray"
    THEN IF v.ndim = 0
         THEN Raised("TypeError", "iteration over a 0-d array")
         ELSE Returned(PyList([i \in 1..Len(v.content.items) |->
                  IF v.ndim = 1
                  THEN IF v.dtype = "int64" THEN NpInt64(v.content.items[i].n)
                       ELSE v.content.items[i]
                  ELSE NdArray(v.dtype, v.ndim - 1, v.content.items[i])]))
    ELSE IF v.kind = "dict" THEN Returned(PyList([i \in 1..Len(v.keys) |-> PyStr(v.keys[i])]))
    ELSE Raised("TypeError", "object is not iterable")

(***************************************************************************)
(* json: a JSON text is a sequence of tokens; json.dumps writes it and     *)
(* json.loads parses it by recursive descent.  str.encode('utf8') of the   *)
(* all-ASCII text json.dumps produces gives bytes holding the same tokens. *)
(***************************************************************************)
Punct(c) == [t |-> c, n |-> 0, s |-> ""]
NumTok(i) == [t |-> "num", n |-> i, s |-> ""]
StrTok(x) == [t |-> "str", n |-> 0, s |-> x]
NullTok == [t |-> "null", n |-> 0, s |-> ""]

PyText(toks) == [kind |-> "text", toks |-> toks]
PyBytes(toks) == [kind |-> "bytes", toks |-> toks]

RECURSIVE Serializable(_)
Serializable(v) ==
    CASE v.kind \in {"None", "int", "str"} -> TRUE
      [] v.kind = "list" -> \A i \in 1..Len(v.items) : Serializable(v.items[i])
      [] v.kind = "dict" -> \A i \in 1..Len(v.keys) : Serializable(v.map[v.keys[i]])
      [] OTHER -> FALSE

RECURSIVE DumpsTokens(_)
RECURSIVE JoinItems(_, _)
RECURSIVE JoinMembers(_, _)
JoinItems(items, i) ==
    IF i > Len(items) THEN <<>>
    ELSE (IF i > 1 THEN <<Punct(",")>> ELSE <<>>)
         \o DumpsTokens(items[i]) \o JoinItems(items, i + 1)

JoinMembers(d, i) ==
    IF i > Len(d.keys) THEN <<>>
    ELSE (IF i > 1 THEN <<Punct(",")>> ELSE <<>>)
         \o <<StrTok(d.keys[i]), Punct(":")>>
         \o DumpsTokens(d.map[d.keys[i]]) \o JoinMembers(d, i + 1)

DumpsTokens(v) ==
    CASE v.kind = "None" -> <<NullTok>>
      [] v.kind = "int" -> <<NumTok(v.n)>>
      [] v.kind = "str" -> <<StrTok(v.s)>>
      [] v.kind = "list" -> <<Punct("[")>> \o JoinItems(v.items, 1) \o <<Punct("]")>>
      [] v.kind = "dict" -> <<Punct("{")>> \o JoinMembers(v, 1) \o <<Punct("}")>>

json_dumps(v) ==
    IF Serializable(v)
    THEN Returned(PyText(DumpsTokens(v)))
    ELSE Raised("TypeError", "Object is not JSON serializable")

encode_utf8(text) == PyBytes(text.toks)

ParseFail == [ok |-> FALSE]
ParseOk(v, nxt) == [ok |-> TRUE, val |-> v, next |-> nxt]

TokIs(toks, i, c) == i <= Len(toks) /\ toks[i].t = c

RECURSIVE ParseValue(_, _)
RECURSIVE ParseItems(_, _, _)
RECURSIVE ParseMembers(_, _, _, _)
ParseItems(toks, i, acc) ==
    LET r == ParseValue(toks, i) IN
    IF ~r.ok THEN ParseFail
    ELSE IF TokIs(toks, r.next, ",")
         THEN ParseItems(toks, r.next + 1, Append(acc, r.val))
         ELSE IF TokIs(toks, r.next, "]")
              THEN ParseOk(PyList(Append(acc, r.val)), r.next + 1)
              ELSE ParseFail

ParseMembers(toks, i, ks, m) ==
    IF ~(TokIs(toks, i, "str") /\ TokIs(toks, i + 1, ":")) THEN ParseFail
    ELSE LET k == toks[i].s
             r == ParseValue(toks, i + 2)
         IN IF ~r.ok THEN ParseFail
            ELSE LET ks2 == IF \E j \in 1..Len(ks) : ks[j] = k THEN ks ELSE Append(ks, k)
                     m2 == [x \in (DOMAIN m) \cup {k} |-> IF x = k THEN r.val ELSE m[x]]
                 IN IF TokIs(toks, r.next, ",")
                    THEN ParseMembers(toks, r.next + 1, ks2, m2)
                    ELSE IF TokIs(toks, r.next, "}")
                         THEN ParseOk(PyDict(ks2, m2), r.next + 1)
                         ELSE ParseFail

ParseValue(toks, i) ==
    IF i > Len(toks) THEN ParseFail
    ELSE CASE toks[i].t = "null" -> ParseOk(PyNone, i + 1)
           [] toks[i].t = "num" -> ParseOk(PyInt(toks[i].n), i + 1)
           [] toks[i].t = "str" -> ParseOk(PyStr(toks[i].s), i + 1)
           [] toks[i].t = "[" ->
                IF TokIs(toks, i + 1, "]") THEN ParseOk(PyList(<<>>), i + 2)
                ELSE ParseItems(toks, i + 1, <<>>)
           [] toks[i].t = "{" ->
                IF TokIs(toks, i + 1, "}") THEN ParseOk(PyDict(<<>>, <<>>), i + 2)
                ELSE ParseMembers(toks, i + 1, <<>>, <<>>)
           [] OTHER -> ParseFail

json_loads(b) ==
    LET r == ParseValue(b.toks, 1) IN
    IF r.ok /\ r.next = Len(b.toks) + 1
    THEN Returned(r.val)
    ELSE Raised("JSONDecodeError", "Expecting value")

\* d[k] of Python: subscripting a reply with a string key
GetItem(d, k) ==
    IF d.kind = "dict"
    THEN IF HasKey(d, k) THEN Returned(d.map[k]) ELSE Raised("KeyError", k)
    ELSE Raised("TypeError", "object is not subscriptable with a str key")

(***************************************************************************)
(* External collaborators: the batch envelope (DataContainer) and the      *)
(* execution context (ExecutionContext.get_path).                          *)
(***************************************************************************)
DataContainer(summary_id, current_ids, data_inputs, expected_outputs) ==
    [kind |-> "DataContainer", summary_id |-> summary_id, current_ids |-> current_ids,
     data_inputs |-> data_inputs, expected_outputs |-> expected_outputs]

get_path(context) == PyStr(context.path)

(***************************************************************************)
(* HTTP client abstraction.                                                *)
(***************************************************************************)
NoObject == [cls |-> "none"]
Unset == "<unset>"              \* a keyword argument left to its default
NoneClient == [cls |-> "None"]  \* request=None

\* the client objects a RestAPICaller can hold
UrllibModule == [cls |-> "urllib.request"]
UrllibWrapperClient == [cls |-> "UrllibRequestWrapper"]
DelegatingClient == [cls |-> "RequestWrapper"]
EchoClient == [cls |-> "EchoStub"]

RequestWrapper_post(host, files) == Returned(PyNone)

RequestWrapper_get(url, method, headers, data) == Returned(PyNone)

UrllibRequestWrapper_post(url, files) == Returned(PyNone)

\* the stub of the tests: get returns the JSON-parsed request body
EchoStub_get(url, method, headers, data) == json_loads(data)

DictWithout(d, k) ==
    PyDict(SelectSeq(d.keys, LAMBDA x : x # k), [x \in (DOMAIN d.map) \ {k} |-> d.map[x]])

ReplyKeys == <<"summary_id", "current_ids", "data_inputs", "expected_outputs">>

\* what the network does with a request: the remote host is unreachable, or
\* answers with a body (the request echoed, the echo lacking one key, a JSON
\* value that is no object, or text that is no JSON)
Networks ==
    {[kind |-> "unreachable"], [kind |-> "echo"], [kind |-> "not_json"],
     [kind |-> "null"], [kind |-> "array"]}
    \cup {[kind |-> "drop", key |-> ReplyKeys[i]] : i \in 1..Len(ReplyKeys)}
    \cup {[kind |-> "drop", key |-> "path"]}

urlopen(req, net) ==
    CASE net.kind = "unreachable" -> Raised("URLError", "connection refused")
      [] net.kind = "echo" -> Returned(req.data)
      [] net.kind = "not_json" -> Returned(PyBytes(<<Punct("{")>>))
      [] net.kind = "null" -> Returned(PyBytes(<<NullTok>>))
      [] net.kind = "array" -> Returned(PyBytes(<<Punct("["), NumTok(1), Punct("]")>>))
      [] net.kind = "drop" ->
            LET sent == json_loads(req.data) IN
            IF sent.status = "returned" /\ sent.value.kind = "dict"
            THEN Returned(encode_utf8(json_dumps(DictWithout(sent.value, net.key)).value))
            ELSE Returned(req.data)

UrllibRequestWrapper_get(url, method, headers, data, net) ==
    LET req == [url |-> url, method |-> method, headers |-> headers, data |-> data]
        response == urlopen(req, net)
    IN  IF response.status = "raised" THEN response
        ELSE json_loads(response.value)

HasGet(client) == client.cls # "urllib.request"

\* self.request.get(...) dispatched on the client object
request_get(client, url, method, headers, data, net) ==
    CASE client.cls = "UrllibRequestWrapper" ->
            UrllibRequestWrapper_get(url, method, headers, data, net)
      [] client.cls = "RequestWrapper" -> RequestWrapper_get(url, method, headers, data)
      [] client.cls = "EchoStub" -> EchoStub_get(url, method, headers, data)

(***************************************************************************)
(* RestAPICaller.                                                          *)
(***************************************************************************)
RestAPICaller_init(url, method, request) ==
    [cls |-> "RestAPICaller",
     url |-> url,
     method |-> IF method = Unset THEN "GET" ELSE method,
     request |-> IF request = NoneClient THEN UrllibModule ELSE request]

\* mutant: the direct transform hands its input back
RestAPICaller_transform_passthrough(s, data_inputs) ==
    [outcome |-> Returned(data_inputs), gets |-> <<>>, posts |-> <<>>]

\* [outcome, gets, posts], as for the batch-context transform below
RestAPICaller_transform(s, data_inputs) ==
    [outcome |-> Raised("NotImplementedError", "must be used inside a pipeline"),
     gets |-> <<>>, posts |-> <<>>]

DataDictKeys == <<"path", "data_inputs", "expected_outputs", "current_ids", "summary_id">>

BuildDataDict(data_container, context) ==
    PyDict(DataDictKeys,
           [k \in {DataDictKeys[i] : i \in 1..Len(DataDictKeys)} |->
              CASE k = "path" -> get_path(context)
                [] k = "data_inputs" -> tolist(np_array(data_container.data_inputs))
                [] k = "expected_outputs" -> tolist(np_array(data_container.expected_outputs))
                [] k = "current_ids" -> tolist(np_array(data_container.current_ids))
                [] k = "summary_id" -> data_container.summary_id])

RequestHeaders == "content-type" :> "application/json"

\* mutant: the method is always GET, whatever was configured
BuildRequest_alwaysGet(s, data) ==
    [url |-> s.url, method |-> "GET", headers |-> RequestHeaders, data |-> data]

\* the arguments self.request.get is called with
BuildRequest(s, data) ==
    [url |-> s.url, method |-> s.method, headers |-> RequestHeaders,
     data |-> data]

\* mutant: the reply's data_inputs and expected_outputs land in each other's field
ParseResults_swapped(results) ==
    LET sid == GetItem(results, "summary_id")
        ids == GetItem(results, "current_ids")
        di == GetItem(results, "data_inputs")
        eo == GetItem(results, "expected_outputs")
    IN  IF sid.status = "raised" THEN sid
        ELSE IF ids.status = "raised" THEN ids
        ELSE IF di.status = "raised" THEN di
        ELSE IF eo.status = "raised" THEN eo
        ELSE Returned(DataContainer(np_array(sid.value), np_array(ids.value),
                                    np_array(eo.value), np_array(di.value)))

\* mutant: results.get(key) in place of results[key], a missing key read as None
ParseResults_defaulting(results) ==
    LET Get(k) == IF results.kind = "dict" /\ HasKey(results, k)
                  THEN results.map[k] ELSE PyNone
    IN  IF results.kind # "dict"
        THEN Raised("AttributeError", "object has no attribute 'get'")
        ELSE Returned(DataContainer(np_array(Get("summary_id")), np_array(Get("current_ids")),
                                    np_array(Get("data_inputs")),
                                    np_array(Get("expected_outputs"))))

\* DataContainer(...) built from the reply, its arguments evaluated in order
ParseResults(results) ==
    LET sid == GetItem(results, "summary_id")
        ids == GetItem(results, "current_ids")
        di == GetItem(results, "data_inputs")
        eo == GetItem(results, "expected_outputs")
    IN  IF sid.status = "raised" THEN sid
        ELSE IF ids.status = "raised" THEN ids
        ELSE IF di.status = "raised" THEN di
        ELSE IF eo.status = "raised" THEN eo
        ELSE Returned(DataContainer(np_array(sid.value), np_array(ids.value),
                                    np_array(di.value), np_array(eo.value)))

\* [outcome, gets, posts]: what the transform ends in, and the calls of get
\* and of post the client received from it, in order
transform_data_container(s, data_container, context, net) ==
    LET dumped == json_dumps(BuildDataDict(data_container, context)) IN
    IF dumped.status = "raised"
    THEN [outcome |-> dumped, gets |-> <<>>, posts |-> <<>>]
    ELSE LET data == encode_utf8(dumped.value)
             req == BuildRequest(s, data)
         IN  IF ~HasGet(s.request)
             THEN [outcome |-> Raised("AttributeError", "module has no attribute 'get'"),
                   gets |-> <<>>, posts |-> <<>>]
             ELSE LET results == request_get(s.request, req.url, req.method,
                                             req.headers, req.data, net)
                  IN  [outcome |-> IF results.status = "raised" THEN results
                                   ELSE ParseResults(results.value),
                       gets |-> <<req>>, posts |-> <<>>]

(***************************************************************************)
(* Codec contract: JSONDataBodyDecoder and JSONDataResponseEncoder, with   *)
(* the two codecs of the usage example and the steps a binder is given.    *)
(***************************************************************************)
BaseDecoder == [cls |-> "JSONDataBodyDecoder"]
Decoder2DArray == [cls |-> "CustomJSONDecoderFor2DArray"]
DecoderOfValues == [cls |-> "ValuesDecoder"]
BaseEncoder == [cls |-> "JSONDataResponseEncoder"]
EncoderOfOutputs == [cls |-> "CustomJSONEncoderOfOutputs"]
IdentityStep == [cls |-> "Identity"]
RaisingStep == [cls |-> "RaisingStep"]

DecoderClasses == {BaseDecoder, Decoder2DArray, DecoderOfValues}
EncoderClasses == {BaseEncoder, EncoderOfOutputs}
WrappedClasses == {IdentityStep, RaisingStep}

\* mutant: the base decode hands its input back
JSONDataBodyDecoder_decode_passthrough(data_inputs) == Returned(data_inputs)

JSONDataBodyDecoder_decode(data_inputs) ==
    Raised("NotImplementedError",
           "TODO: inherit from the JSONDataBodyDecoder class and implement this method.")

JSONDataResponseEncoder_encode(data_inputs) ==
    Raised("NotImplementedError",
           "TODO: inherit from the JSONDataResponseEncoder class and implement this method.")

CustomJSONDecoderFor2DArray_decode(data_inputs) ==
    LET v == GetItem(data_inputs, "values") IN
    IF v.status = "raised" THEN v ELSE Returned(np_array(v.value))

\* a decoder of a deployer that hands the parsed values on as they are
ValuesDecoder_decode(data_inputs) == GetItem(data_inputs, "values")

CustomJSONEncoderOfOutputs_encode(data_inputs) ==
    LET l == BuiltinList(data_inputs) IN
    IF l.status = "raised" THEN l
    ELSE Returned(PyDict(<<"predictions">>, "predictions" :> l.value))

decode(step, data_inputs) ==
    CASE step.cls = "CustomJSONDecoderFor2DArray" -> CustomJSONDecoderFor2DArray_decode(data_inputs)
      [] step.cls = "ValuesDecoder" -> ValuesDecoder_decode(data_inputs)
      [] OTHER -> JSONDataBodyDecoder_decode(data_inputs)

encode(step, data_inputs) ==
    CASE step.cls = "CustomJSONEncoderOfOutputs" -> CustomJSONEncoderOfOutputs_encode(data_inputs)
      [] OTHER -> JSONDataResponseEncoder_encode(data_inputs)

\* flask.jsonify: a response whose body is the JSON text of its argument
jsonify(v) ==
    LET d == json_dumps(v) IN
    IF d.status = "raised" THEN d
    ELSE Returned([kind |-> "Response", mimetype |-> "application/json", body |-> d.value])

JSONDataBodyDecoder_transform(step, data_inputs) == decode(step, data_inputs)

JSONDataResponseEncoder_transform(step, data_inputs) ==
    LET e == encode(step, data_inputs) IN
    IF e.status = "raised" THEN e ELSE jsonify(e.value)

step_transform(step, data_inputs) ==
    CASE step \in DecoderClasses -> JSONDataBodyDecoder_transform(step, data_inputs)
      [] step \in EncoderClasses -> JSONDataResponseEncoder_transform(step, data_inputs)
      [] step = IdentityStep -> Returned(data_inputs)
      [] step = RaisingStep -> Raised("ValueError", "downstream pipeline failure")

(***************************************************************************)
(* FlaskRestApiWrapper: a Pipeline of the three steps, bound to one route. *)
(***************************************************************************)
\* Pipeline.transform: each step in list order on the previous step's
\* result; a step that raises ends the run.  The trace records the steps run.
RECURSIVE RunSteps(_, _, _, _)
RunSteps(steps, i, value, trace) ==
    IF i > Len(steps) THEN [outcome |-> Returned(value), trace |-> trace]
    ELSE LET o == step_transform(steps[i], value)
             t == Append(trace, [step |-> steps[i], input |-> value, outcome |-> o])
         IN  IF o.status = "raised" THEN [outcome |-> o, trace |-> t]
             ELSE RunSteps(steps, i + 1, o.value, t)

Pipeline_transform(steps, data_inputs) == RunSteps(steps, 1, data_inputs, <<>>)

\* mutant: the wrapped unit is placed before the decoder
FlaskRestApiWrapper_init_misordered(json_decoder, wrapped, json_encoder, route) ==
    [cls |-> "FlaskRestApiWrapper",
     steps |-> <<wrapped, json_decoder, json_encoder>>,
     route |-> IF route = Unset THEN "/" ELSE route]

FlaskRestApiWrapper_init(json_decoder, wrapped, json_encoder, route) ==
    [cls |-> "FlaskRestApiWrapper",
     steps |-> <<json_decoder, wrapped, json_encoder>>,
     route |-> IF route = Unset THEN "/" ELSE route]

\* flask's request.get_json(): the parsed body, or a BadRequest
get_json(body) ==
    LET r == json_loads(body) IN
    IF r.status = "raised" THEN Raised("BadRequest", "Failed to decode JSON object") ELSE r

\* mutant: the handler catches what the pipeline raises and answers with an
\* error document
RESTfulRes_get_catching(wrapped, body) ==
    LET j == get_json(body) IN
    IF j.status = "raised" THEN [outcome |-> j, trace |-> <<>>]
    ELSE LET r == Pipeline_transform(wrapped.steps, j.value) IN
         IF r.outcome.status = "raised"
         THEN [outcome |-> jsonify(PyDict(<<"error">>, "error" :> PyStr(r.outcome.type))),
               trace |-> r.trace]
         ELSE r

\* RESTfulRes.get of get_app, serving a request with the given body
RESTfulRes_get(wrapped, body) ==
    LET j == get_json(body) IN
    IF j.status = "raised" THEN [outcome |-> j, trace |-> <<>>]
    ELSE Pipeline_transform(wrapped.steps, j.value)

(***************************************************************************)
(* Inputs: envelopes, contexts and constructor arguments.                  *)
(***************************************************************************)
FlatLists(S) ==
    {PyList(xs) : xs \in UNION {[1..n -> {PyInt(i) : i \in S}] : n \in 0..MaxLen}}

IntList(xs) == PyList([i \in 1..Len(xs) |-> PyInt(xs[i])])

Nested2D == PyList(<<IntList(<<1, 2>>), IntList(<<3, 4>>)>>)

\* data_inputs: flat lists, a list of three distinct elements, a 2-d nested
\* list, a scalar, and a list holding an object json cannot serialize
DataInputValues ==
    FlatLists({1}) \cup {IntList(<<1, 2, 3>>), Nested2D, PyInt(5), PyList(<<PyObject>>)}

\* (summary_id, current_ids, expected_outputs) of an envelope
EnvelopeRests ==
    {<<PyInt(7), IntList(<<0, 1, 2>>), IntList(<<4, 5, 6>>)>>,
     <<PyInt(7), IntList(<<0>>), PyNone>>,
     <<PyNone, PyNone, PyNone>>}

Envelopes ==
    {DataContainer(r[1], r[2], di, r[3]) : di \in DataInputValues, r \in EnvelopeRests}

\* the envelope of the documented example
ExampleEnvelope ==
    DataContainer(PyInt(7), IntList(<<0, 1, 2>>), IntList(<<1, 2, 3>>), IntList(<<4, 5, 6>>))

NoneEnvelope == DataContainer(PyNone, PyNone, IntList(<<1>>), PyNone)

Contexts == {[path |-> "Pipeline/RestAPICaller"]}

\* the (envelope, network) pairs a batch-context transform is tried on: the
\* network matters only to the client that uses it
TransformInputs(client) ==
    IF client.cls = "UrllibRequestWrapper"
    THEN (Envelopes \X {[kind |-> "echo"], [kind |-> "unreachable"]})
         \cup ({ExampleEnvelope, NoneEnvelope} \X Networks)
    ELSE Envelopes \X {[kind |-> "unused"]}

\* (url, method) of a caller: the method left to its default, or given
UrlMethods == {<<"http://remote/a", Unset>>, <<"http://remote/b", "POST">>}
Clients == {NoneClient, UrllibWrapperClient, DelegatingClient, EchoClient}

CallerCtors ==
    {[cls |-> "RestAPICaller", url |-> um[1], method |-> um[2], request |-> c] :
        um \in UrlMethods, c \in Clients}

Routes == {Unset, "/predict"}

BinderCtors ==
    {[cls |-> "FlaskRestApiWrapper", json_decoder |-> d, wrapped |-> w,
      json_encoder |-> e, route |-> r] :
        d \in DecoderClasses, w \in WrappedClasses, e \in EncoderClasses, r \in Routes}

BodyOf(v) == encode_utf8(json_dumps(v).value)

\* request bodies: {"values": v} for several v, an object without "values",
\* a JSON value that is no object, and text that is no JSON
RequestBodies ==
    {BodyOf(PyDict(<<"values">>, "values" :> v)) :
        v \in FlatLists({1}) \cup {Nested2D, IntList(<<1, 2, 3>>), PyInt(5)}}
    \cup {BodyOf(PyDict(<<"other">>, "other" :> PyInt(1))),
          BodyOf(PyNone),
          PyBytes(<<Punct("{")>>)}

(***************************************************************************)
(* The state machine.  One object is deployed: a RestAPICaller or a        *)
(* FlaskRestApiWrapper.                                                    *)
(***************************************************************************)
Init ==
    /\ ctor \in CallerCtors \cup BinderCtors
    /\ self = IF ctor.cls = "RestAPICaller"
              THEN RestAPICaller_init(ctor.url, ctor.method, ctor.request)
              ELSE NoObject
    /\ api = IF ctor.cls = "FlaskRestApiWrapper"
             THEN FlaskRestApiWrapper_init(ctor.json_decoder, ctor.wrapped,
                                           ctor.json_encoder, ctor.route)
             ELSE NoObject
    /\ getCalls = 0
    /\ postCalls = 0
    /\ invocations = 0
    /\ ops = 0
    /\ last = [op |-> "init"]

\* one batch-context transform of the caller
TransformDataContainer ==
    /\ self # NoObject
    /\ ops < MaxCalls
    /\ ops' = ops + 1
    /\ \E in \in TransformInputs(self.request), context \in Contexts :
          LET dc == in[1]
              net == in[2]
              r == transform_data_container(self, dc, context, net)
          IN
          /\ invocations' = invocations + 1
          /\ getCalls' = getCalls + Len(r.gets)
          /\ postCalls' = postCalls + Len(r.posts)
          /\ last' = [op |-> "_transform_data_container", data_container |-> dc,
                      context |-> context, net |-> net, outcome |-> r.outcome,
                      gets |-> r.gets]
    /\ UNCHANGED <<ctor, self, api>>

\* the caller's transform called directly
Transform ==
    /\ self # NoObject
    /\ ops < MaxCalls
    /\ ops' = ops + 1
    /\ \E di \in DataInputValues :
          LET r == RestAPICaller_transform(self, di) IN
          /\ getCalls' = getCalls + Len(r.gets)
          /\ postCalls' = postCalls + Len(r.posts)
          /\ last' = [op |-> "transform", data_inputs |-> di, outcome |-> r.outcome,
                      gets |-> r.gets]
    /\ UNCHANGED <<ctor, self, api, invocations>>

\* one GET request served by the binder's resource
Get ==
    /\ api # NoObject
    /\ ops < MaxCalls
    /\ ops' = ops + 1
    /\ \E body \in RequestBodies :
          LET r == RESTfulRes_get(api, body) IN
          last' = [op |-> "GET", body |-> body, outcome |-> r.outcome, trace |-> r.trace]
    /\ UNCHANGED <<ctor, self, api, getCalls, postCalls, invocations>>

\* the abstract method bodies, reached by a subclass that delegates to them
BaseDecode ==
    /\ api # NoObject
    /\ ops < MaxCalls
    /\ ops' = ops + 1
    /\ \E body \in RequestBodies :
          last' = [op |-> "JSONDataBodyDecoder.decode", body |-> body,
                   outcome |-> JSONDataBodyDecoder_decode(json_loads(body))]
    /\ UNCHANGED <<ctor, self, api, getCalls, postCalls, invocations>>

BaseEncode ==
    /\ api # NoObject
    /\ ops < MaxCalls
    /\ ops' = ops + 1
    /\ \E di \in DataInputValues :
          last' = [op |-> "JSONDataResponseEncoder.encode", data_inputs |-> di,
                   outcome |-> JSONDataResponseEncoder_encode(di)]
    /\ UNCHANGED <<ctor, self, api, getCalls, postCalls, invocations>>

BaseGet ==
    /\ self # NoObject
    /\ ops < MaxCalls
    /\ ops' = ops + 1
    /\ last' = [op |-> "RequestWrapper.get",
                outcome |-> RequestWrapper_get(self.url, self.method, RequestHeaders,
                                               BodyOf(PyList(<<>>)))]
    /\ UNCHANGED <<ctor, self, api, getCalls, postCalls, invocations>>

BasePost ==
    /\ self # NoObject
    /\ ops < MaxCalls
    /\ ops' = ops + 1
    /\ \E stock \in BOOLEAN :
          last' = [op |-> IF stock THEN "UrllibRequestWrapper.post" ELSE "RequestWrapper.post",
                   outcome |-> IF stock THEN UrllibRequestWrapper_post(self.url, <<>>)
                               ELSE RequestWrapper_post(self.url, <<>>)]
    /\ UNCHANGED <<ctor, self, api, getCalls, postCalls, invocations>>

Next ==
    \/ TransformDataContainer
    \/ Transform
    \/ Get
    \/ BaseDecode
    \/ BaseEncode
    \/ BaseGet
    \/ BasePost

Spec == Init /\ [][Next]_vars

(***************************************************************************)
(* Properties.                                                             *)
(***************************************************************************)
\* the plain value an object stands for: an array's elements as nested lists
RECURSIVE ValueOf(_)
ValueOf(v) ==
    CASE v.kind = "ndarray" -> ValueOf(v.content)
      [] v.kind = "np.int64" -> PyInt(v.n)
      [] v.kind = "list" -> PyList([i \in 1..Len(v.items) |-> ValueOf(v.items[i])])
      [] OTHER -> v

IsIntList(v) == v.kind = "list" /\ \A i \in 1..Len(v.items) : v.items[i].kind = "int"

IntegerEnvelope(dc) ==
    /\ dc.summary_id.kind = "int"
    /\ IsIntList(dc.data_inputs)
    /\ IsIntList(dc.expected_outputs)
    /\ IsIntList(dc.current_ids)

BatchTransformed == last.op = "_transform_data_container"

\* the client's get returns the JSON-parsed body of the request it was given
ClientEchoes ==
    \/ self.request = EchoClient
    \/ self.request = UrllibWrapperClient /\ last.net.kind = "echo"

FieldNames == {"summary_id", "current_ids", "data_inputs", "expected_outputs"}

\* C1: with a client that echoes the parsed request body, the batch-context
\* transform of an envelope of integer lists and an integer summary_id returns
\* an envelope whose four fields have the values of the input envelope's.
C1_EchoRoundTripOfIntegers ==
    (BatchTransformed /\ ClientEchoes /\ IntegerEnvelope(last.data_container))
    => /\ last.outcome.status = "returned"
       /\ last.outcome.value.kind = "DataContainer"
       /\ \A f \in FieldNames :
             ValueOf(last.outcome.value[f]) = last.data_container[f]

C1_Witness ==
    /\ BatchTransformed
    /\ self.request = EchoClient
    /\ last.data_container = ExampleEnvelope
    /\ last.outcome.status = "returned"
    /\ ValueOf(last.outcome.value.data_inputs) = IntList(<<1, 2, 3>>)

\* C2: with an echoing client every envelope that comes back keeps its
\* structure: an absent (None) expected_outputs or current_ids is absent in
\* the returned envelope, and a (nested) list comes back with the same
\* nesting and elements.
C2_RoundTripKeepsStructure ==
    (BatchTransformed /\ ClientEchoes /\ last.outcome.status = "returned")
    => /\ \A f \in {"expected_outputs", "current_ids"} :
             IsNone(last.data_container[f]) => IsNone(last.outcome.value[f])
       /\ \A f \in FieldNames \ {"summary_id"} :
             IsList(last.data_container[f])
             => ValueOf(last.outcome.value[f]) = last.data_container[f]

Served == last.op = "GET"

ParsedBody == json_loads(last.body)

StagesOf(c) == <<c.json_decoder, c.wrapped, c.json_encoder>>

\* C3: a GET request that is answered ran the decoder, then the wrapped unit,
\* then the encoder, each once and each on the result of the one before, and
\* the response is encode(wrapped(decode(b))) as a JSON response; with an
\* identity wrapped unit its body is the JSON text of encode(decode(b)).  A
\* request that fails ran a prefix of the three stages, in that order.
C3_StagesInOrder ==
    (Served /\ ParsedBody.status = "returned")
    => LET t == last.trace
           d == decode(ctor.json_decoder, ParsedBody.value)
       IN  /\ Len(t) \in 1..3
           /\ \A i \in 1..Len(t) : t[i].step = StagesOf(ctor)[i]
           /\ t[1].input = ParsedBody.value
           /\ \A i \in 2..Len(t) :
                 /\ t[i - 1].outcome.status = "returned"
                 /\ t[i].input = t[i - 1].outcome.value
           /\ last.outcome.status = "returned"
              => /\ Len(t) = 3
                 /\ LET w == step_transform(ctor.wrapped, d.value)
                        e == encode(ctor.json_encoder, w.value)
                    IN  /\ last.outcome.value.kind = "Response"
                        /\ last.outcome.value.body = json_dumps(e.value).value
                        /\ ctor.wrapped = IdentityStep
                           => last.outcome.value.body
                              = json_dumps(encode(ctor.json_encoder, d.value).value).value

C3_Witness ==
    /\ Served
    /\ ctor.wrapped = IdentityStep
    /\ ctor.json_decoder = DecoderOfValues
    /\ last.body = BodyOf(PyDict(<<"values">>, "values" :> Nested2D))
    /\ last.outcome.status = "returned"
    /\ last.outcome.value.body
       = json_dumps(PyDict(<<"predictions">>, "predictions" :> Nested2D)).value

\* C4: the caller's transform, called directly, raises NotImplementedError
\* ("must be used inside a pipeline") whatever its input and configuration,
\* and the client receives no call from it.
C4_DirectTransformFails ==
    [][(last'.op = "transform" /\ ops' = ops + 1)
       => /\ last'.outcome = Raised("NotImplementedError", "must be used inside a pipeline")
          /\ getCalls' = getCalls
          /\ postCalls' = postCalls]_vars

C4_Witness ==
    /\ last.op = "transform"
    /\ self.request = EchoClient
    /\ self.method = "POST"
    /\ last.outcome.status = "raised"
    /\ getCalls = 1

\* C5: an exception raised by the decoder, the wrapped unit or the encoder
\* while a GET request is handled is what the handler ends in, unchanged: the
\* handler returns no response and runs no stage after the failing one.
C5_StageErrorPropagates ==
    (Served /\ ParsedBody.status = "returned")
    => LET d == JSONDataBodyDecoder_transform(ctor.json_decoder, ParsedBody.value)
           w == step_transform(ctor.wrapped, d.value)
           e == JSONDataResponseEncoder_transform(ctor.json_encoder, w.value)
       IN  IF d.status = "raised"
           THEN last.outcome = d /\ Len(last.trace) = 1
           ELSE IF w.status = "raised"
                THEN last.outcome = w /\ Len(last.trace) = 2
                ELSE e.status = "raised"
                     => last.outcome = e /\ Len(last.trace) = 3

C5_Witness ==
    /\ Served
    /\ ctor.wrapped = RaisingStep
    /\ ctor.json_decoder = Decoder2DArray
    /\ last.outcome = Raised("ValueError", "downstream pipeline failure")
    /\ Len(last.trace) = 2

\* C6: after n batch-context transforms the client has received exactly n
\* calls of get, and none of post.
C6_OneGetPerInvocation == getCalls = invocations /\ postCalls = 0

RequestSent == BatchTransformed /\ Len(last.gets) > 0

\* C7: when the client's get fails, or its reply is no mapping or lacks one of
\* summary_id, current_ids, data_inputs, expected_outputs, the batch-context
\* transform ends in that error and returns no envelope; a transport or
\* JSON-parse failure inside UrllibRequestWrapper.get comes out as it was.
C7_FailureOrMalformedReplyRaises ==
    RequestSent
    => /\ (self.request = UrllibWrapperClient /\ last.net.kind = "unreachable")
          => last.outcome = Raised("URLError", "connection refused")
       /\ (self.request = UrllibWrapperClient /\ last.net.kind = "not_json")
          => last.outcome = Raised("JSONDecodeError", "Expecting value")
       /\ (self.request = UrllibWrapperClient /\ last.net.kind \in {"null", "array"})
          => last.outcome.status = "raised" /\ last.outcome.type = "TypeError"
       /\ (self.request = UrllibWrapperClient /\ last.net.kind = "drop"
             /\ last.net.key \in FieldNames)
          => last.outcome = Raised("KeyError", last.net.key)
       /\ self.request = DelegatingClient
          => last.outcome.status = "raised" /\ last.outcome.type = "TypeError"

C7_Witness ==
    /\ RequestSent
    /\ self.request = UrllibWrapperClient
    /\ last.net = [kind |-> "drop", key |-> "expected_outputs"]
    /\ last.data_container = ExampleEnvelope
    /\ last.outcome.status = "raised"

\* C8: every request the batch-context transform issues targets the configured
\* url with the configured method (GET when none was configured), carries
\* exactly the header content-type: application/json, and its body is a JSON
\* object with exactly the keys path, data_inputs, expected_outputs,
\* current_ids and summary_id: the context's path and the envelope's fields.
C8_OutboundRequestShape ==
    BatchTransformed
    => \A i \in 1..Len(last.gets) :
          LET r == last.gets[i]
              b == json_loads(r.data)
          IN  /\ r.url = ctor.url
              /\ r.method = (IF ctor.method = Unset THEN "GET" ELSE ctor.method)
              /\ DOMAIN r.headers = {"content-type"}
              /\ r.headers["content-type"] = "application/json"
              /\ b.status = "returned"
              /\ b.value.kind = "dict"
              /\ DOMAIN b.value.map = FieldNames \cup {"path"}
              /\ b.value.map["path"] = PyStr(last.context.path)
              /\ \A f \in FieldNames : b.value.map[f] = last.data_container[f]

C8_Witness ==
    /\ RequestSent
    /\ ctor.method = Unset
    /\ last.gets[1].method = "GET"
    /\ last.data_container = NoneEnvelope
    /\ getCalls = 2

StubOps ==
    {"JSONDataBodyDecoder.decode", "JSONDataResponseEncoder.encode",
     "RequestWrapper.get", "RequestWrapper.post"}

\* C9: the base decode, the base encode and the base client get and post each
\* end in a not-implemented error rather than returning a value.
C9_AllStubsRaise ==
    last.op \in StubOps
    => last.outcome.status = "raised" /\ last.outcome.type = "NotImplementedError"

\* C9, amended: the base decode and the base encode end in a not-implemented
\* error; the base client get and post raise nothing and return None.
C9_CodecStubsRaiseClientStubsReturnNone ==
    /\ last.op \in {"JSONDataBodyDecoder.decode", "JSONDataResponseEncoder.encode"}
       => last.outcome.status = "raised" /\ last.outcome.type = "NotImplementedError"
    /\ last.op \in {"RequestWrapper.get", "RequestWrapper.post"}
       => last.outcome = Returned(PyNone)

C9_Witness ==
    /\ last.op = "JSONDataBodyDecoder.decode"
    /\ last.body = BodyOf(PyDict(<<"values">>, "values" :> Nested2D))
    /\ last.outcome.status = "raised"

\* C10: a caller constructed with only a url reaches the outbound call with
\* method GET in every batch-context transform whose envelope serializes, and
\* ends in the parsed envelope or in a transport or parse error, never in a
\* missing-capability error on its client.
C10_DefaultClientProvidesGet ==
    (BatchTransformed /\ ctor.method = Unset /\ ctor.request = NoneClient
       /\ Serializable(BuildDataDict(last.data_container, last.context)))
    => /\ Len(last.gets) = 1
       /\ last.gets[1].method = "GET"
       /\ \/ last.outcome.status = "returned"
          \/ last.outcome.type \in {"URLError", "JSONDecodeError", "TypeError", "KeyError"}

====
